---- MODULE Spec2Model ----
(***************************************************************************)
(* salt-check: test discovery, validation, coercion and assertion          *)
(* evaluation (src/salt_check.py).                                         *)
(*                                                                         *)
(* A Python value is a record tagged with its type t; b, n, s, items hold  *)
(* the payload of a bool, an int, a text, a list.  Text is a sequence of   *)
(* one-character strings, so that splitting, formatting, parsing and       *)
(* substring tests are computed, not assumed.                              *)
(***************************************************************************)
EXTENDS Integers, Sequences, FiniteSets, TLC

\* ------------------------------------------------------------------ bounds
\* at most this many .tst files are gathered for one state
MaxFiles == 2
\* at most this many directories are met by os.walk under one search root
MaxDirs == 2
\* at most this many states are listed by state.show_top
MaxTop == 3

\* ---------------------------------------------------------- Python values
Val(t, b, n, s, items, cls) ==
    [t |-> t, b |-> b, n |-> n, s |-> s, items |-> items, cls |-> cls]
NoneV == Val("none", FALSE, 0, <<>>, <<>>, "")
BoolV(b) == Val("bool", b, 0, <<>>, <<>>, "")
IntV(n) == Val("int", FALSE, n, <<>>, <<>>, "")
StrV(s) == Val("str", FALSE, 0, s, <<>>, "")
ListV(items) == Val("list", FALSE, 0, <<>>, items, "")
\* an exception object: its class, its identity (n) and its one argument
ErrV(cls, id, arg) == Val("err", FALSE, id, <<>>, <<arg>>, cls)
\* not a value: an exception of class cls leaving the function called
Raise(cls) == Val("raise", FALSE, 0, <<>>, <<>>, cls)

IsRaise(x) == x.t = "raise"
IsNumeric(x) == x.t \in {"bool", "int"}
NumVal(x) == IF x.t = "bool" THEN (IF x.b THEN 1 ELSE 0) ELSE x.n

\* ------------------------------------------------------------ text literals
S_True == <<"T", "r", "u", "e">>
S_False == <<"F", "a", "l", "s", "e">>
S_None == <<"N", "o", "n", "e">>
S_Empty == <<>>
S_FalsePrefix == <<"F", "a", "l", "s", "e", ":", " ">>
S_NotEqualTo == <<" ", "i", "s", " ", "n", "o", "t", " ", "e", "q", "u", "a", "l", " ", "t", "o", " ">>
S_EqualTo == <<" ", "i", "s", " ", "e", "q", "u", "a", "l", " ", "t", "o", " ">>
S_NotTrue == <<" ", "n", "o", "t", " ", "T", "r", "u", "e">>
S_NotFalse == <<" ", "n", "o", "t", " ", "F", "a", "l", "s", "e">>
S_InvalidTest == <<"F", "a", "l", "s", "e", ":", " ", "I", "n", "v", "a", "l", "i", "d", " ", "t", "e", "s", "t">>
S_ThisWorks == <<"T", "h", "i", "s", " ", "w", "o", "r", "k", "s", "!">>
S_SomethingElse == <<"S", "o", "m", "e", "t", "h", "i", "n", "g", " ", "e", "l", "s", "e">>
S_Garbage == <<"g", "a", "r", "b", "a", "g", "e">>
S_5 == <<"5">>
S_Minus1 == <<"-", "1">>
S_Boom == <<"b", "o", "o", "m">>
F_test_echo == <<"t", "e", "s", "t", ".", "e", "c", "h", "o">>
F_test_ping == <<"t", "e", "s", "t", ".", "p", "i", "n", "g">>
F_test_nope == <<"t", "e", "s", "t", ".", "n", "o", "p", "e">>
F_nope_echo == <<"n", "o", "p", "e", ".", "e", "c", "h", "o">>
F_testecho == <<"t", "e", "s", "t", "e", "c", "h", "o">>
F_a_b_c == <<"a", ".", "b", ".", "c">>
F_file_exists == <<"f", "i", "l", "e", ".", "f", "i", "l", "e", "_", "e", "x", "i", "s", "t", "s">>
F_sys_list_functions == <<"s", "y", "s", ".", "l", "i", "s", "t", "_", "f", "u", "n", "c", "t", "i", "o", "n", "s">>
M_test == <<"t", "e", "s", "t">>
M_file == <<"f", "i", "l", "e">>
A_assertEqual == <<"a", "s", "s", "e", "r", "t", "E", "q", "u", "a", "l">>
A_assertNotEqual == <<"a", "s", "s", "e", "r", "t", "N", "o", "t", "E", "q", "u", "a", "l">>
A_assertTrue == <<"a", "s", "s", "e", "r", "t", "T", "r", "u", "e">>
A_assertFalse == <<"a", "s", "s", "e", "r", "t", "F", "a", "l", "s", "e">>
A_assertIn == <<"a", "s", "s", "e", "r", "t", "I", "n">>
A_assertNotIn == <<"a", "s", "s", "e", "r", "t", "N", "o", "t", "I", "n">>
A_assertGreater == <<"a", "s", "s", "e", "r", "t", "G", "r", "e", "a", "t", "e", "r">>
A_assertGreaterEqual == <<"a", "s", "s", "e", "r", "t", "G", "r", "e", "a", "t", "e", "r", "E", "q", "u", "a", "l">>
A_assertLess == <<"a", "s", "s", "e", "r", "t", "L", "e", "s", "s">>
A_assertLessEqual == <<"a", "s", "s", "e", "r", "t", "L", "e", "s", "s", "E", "q", "u", "a", "l">>
U_apache == <<"a", "p", "a", "c", "h", "e">>
U_nginx == <<"n", "g", "i", "n", "x">>
U_apache_vhost == <<"a", "p", "a", "c", "h", "e", ".", "v", "h", "o", "s", "t", "_", "w", "e", "b", "1">>
U_dot_x == <<".", "x">>
A_assertBogus == <<"a", "s", "s", "e", "r", "t", "B", "o", "g", "u", "s">>

\* ----------------------------------------------------------- text helpers
Digits == <<"0", "1", "2", "3", "4", "5", "6", "7", "8", "9">>
IsDigit(c) == \E i \in 1..10 : Digits[i] = c
DigitVal(c) == (CHOOSE i \in 1..10 : Digits[i] = c) - 1

RECURSIVE NatToStr(_)
NatToStr(n) == IF n < 10 THEN <<Digits[n + 1]>>
               ELSE NatToStr(n \div 10) \o <<Digits[(n % 10) + 1]>>

\* str(n) / "{0}".format(n) for an integer
IntToStr(n) == IF n < 0 THEN <<"-">> \o NatToStr(0 - n) ELSE NatToStr(n)

RECURSIVE DigitsToNat(_)
DigitsToNat(s) == IF Len(s) = 0 THEN 0
                  ELSE 10 * DigitsToNat(SubSeq(s, 1, Len(s) - 1)) + DigitVal(s[Len(s)])

AllDigits(s) == Len(s) > 0 /\ \A i \in 1..Len(s) : IsDigit(s[i])

\* int(text): an optional sign and decimal digits, anything else is a
\* ValueError
IntParses(s) == \/ AllDigits(s)
                \/ Len(s) > 1 /\ s[1] \in {"+", "-"} /\ AllDigits(Tail(s))
ParseInt(s) == IF s[1] = "-" THEN 0 - DigitsToNat(Tail(s))
               ELSE IF s[1] = "+" THEN DigitsToNat(Tail(s))
               ELSE DigitsToNat(s)

\* text.split('.')
RECURSIVE SplitDot(_)
SplitDot(s) ==
    IF \A i \in 1..Len(s) : s[i] # "." THEN <<s>>
    ELSE LET k == CHOOSE i \in 1..Len(s) :
                      s[i] = "." /\ \A j \in 1..(i - 1) : s[j] # "."
         IN <<SubSeq(s, 1, k - 1)>> \o SplitDot(SubSeq(s, k + 1, Len(s)))

\* needle in haystack, both text
IsSubstring(x, s) == \E i \in 1..(Len(s) - Len(x) + 1) : SubSeq(s, i, i + Len(x) - 1) = x

\* ------------------------------------------------- Python value semantics
\* bool(x)
Truthy(x) == CASE x.t = "none" -> FALSE
               [] x.t = "bool" -> x.b
               [] x.t = "int" -> x.n # 0
               [] x.t = "str" -> Len(x.s) > 0
               [] x.t = "list" -> Len(x.items) > 0
               [] x.t = "err" -> TRUE

\* x == y
RECURSIVE PyEq(_, _)
PyEq(x, y) ==
    IF IsNumeric(x) /\ IsNumeric(y) THEN NumVal(x) = NumVal(y)
    ELSE IF x.t # y.t THEN FALSE
    ELSE CASE x.t = "none" -> TRUE
           [] x.t = "str" -> x.s = y.s
           [] x.t = "list" -> /\ Len(x.items) = Len(y.items)
                              /\ \A i \in 1..Len(x.items) : PyEq(x.items[i], y.items[i])
           [] x.t = "err" -> x.n = y.n

\* str(x) and repr(x)
RECURSIVE Str(_)
RECURSIVE Repr(_)
RECURSIVE ReprItems(_)
Str(x) == CASE x.t = "none" -> S_None
            [] x.t = "bool" -> (IF x.b THEN S_True ELSE S_False)
            [] x.t = "int" -> IntToStr(x.n)
            [] x.t = "str" -> x.s
            [] x.t = "list" -> <<"[">> \o ReprItems(x.items) \o <<"]">>
            [] x.t = "err" -> Str(x.items[1])
Repr(x) == IF x.t = "str" THEN <<"'">> \o x.s \o <<"'">> ELSE Str(x)
ReprItems(s) == IF Len(s) = 0 THEN <<>>
                ELSE IF Len(s) = 1 THEN Repr(s[1])
                ELSE Repr(s[1]) \o <<",", " ">> \o ReprItems(Tail(s))

\* the characters of the modelled texts, in code-point order
Alphabet == <<" ", "!", "'", "+", ",", "-", ".",
              "0", "1", "2", "3", "4", "5", "6", "7", "8", "9", ":",
              "A", "B", "C", "D", "E", "F", "G", "H", "I", "J", "K", "L", "M",
              "N", "O", "P", "Q", "R", "S", "T", "U", "V", "W", "X", "Y", "Z",
              "[", "]", "_",
              "a", "b", "c", "d", "e", "f", "g", "h", "i", "j", "k", "l", "m",
              "n", "o", "p", "q", "r", "s", "t", "u", "v", "w", "x", "y", "z">>
Ord(c) == CHOOSE i \in 1..Len(Alphabet) : Alphabet[i] = c

\* The interpreter the module is loaded by.  Python 3 raises TypeError when
\* unorderable values are ordered and when an exception is searched with
\* "in"; Python 2 orders any two values (None, then numbers, then by type
\* name, objects of one class by address) and iterates an exception's
\* arguments.  "py2a" / "py2b": the object created first lies at the lower /
\* higher address.
Interps == {"py3", "py2a", "py2b"}

CmpInt(a, b) == IF a < b THEN "lt" ELSE IF a > b THEN "gt" ELSE "eq"

RECURSIVE CmpText(_, _)
CmpText(a, b) ==
    IF Len(a) = 0 /\ Len(b) = 0 THEN "eq"
    ELSE IF Len(a) = 0 THEN "lt"
    ELSE IF Len(b) = 0 THEN "gt"
    ELSE IF a[1] # b[1] THEN CmpInt(Ord(a[1]), Ord(b[1]))
    ELSE CmpText(Tail(a), Tail(b))

\* Python 2's order of the types of two values of different kinds
TypeRank(x) == CASE x.t = "none" -> 0
                 [] IsNumeric(x) -> 1
                 [] x.t = "err" -> 2
                 [] x.t = "list" -> 3
                 [] x.t = "str" -> 4

\* cmp(x, y): "lt", "eq", "gt", or "raise" for a TypeError
RECURSIVE Cmp(_, _, _)
RECURSIVE CmpItems(_, _, _)
Cmp(x, y, interp) ==
    IF IsNumeric(x) /\ IsNumeric(y) THEN CmpInt(NumVal(x), NumVal(y))
    ELSE IF x.t = "str" /\ y.t = "str" THEN CmpText(x.s, y.s)
    ELSE IF x.t = "list" /\ y.t = "list" THEN CmpItems(x.items, y.items, interp)
    ELSE IF interp = "py3" THEN "raise"
    ELSE IF TypeRank(x) # TypeRank(y) THEN CmpInt(TypeRank(x), TypeRank(y))
    ELSE IF x.t = "none" THEN "eq"
    ELSE \* two exception objects
         IF x.n = y.n THEN "eq"
         ELSE IF x.cls # y.cls THEN (IF x.cls = "Exception" THEN "lt" ELSE "gt")
         ELSE IF interp = "py2a" THEN CmpInt(x.n, y.n)
         ELSE CmpInt(y.n, x.n)
CmpItems(a, b, interp) ==
    IF Len(a) = 0 /\ Len(b) = 0 THEN "eq"
    ELSE IF Len(a) = 0 THEN "lt"
    ELSE IF Len(b) = 0 THEN "gt"
    ELSE IF PyEq(a[1], b[1]) THEN CmpItems(Tail(a), Tail(b), interp)
    ELSE Cmp(a[1], b[1], interp)

\* x in c: "T", "F", or "raise" for a TypeError
PyIn(x, c, interp) ==
    CASE c.t = "str" -> IF x.t # "str" THEN "raise"
                        ELSE IF IsSubstring(x.s, c.s) THEN "T" ELSE "F"
      [] c.t = "list" -> IF \E i \in 1..Len(c.items) : PyEq(x, c.items[i]) THEN "T" ELSE "F"
      [] c.t = "err" -> IF interp = "py3" THEN "raise"
                        ELSE IF PyEq(x, c.items[1]) THEN "T" ELSE "F"
      [] OTHER -> "raise"

\* eval(text) of the literal forms; any other text raises
Eval(s) == IF s = S_True THEN BoolV(TRUE)
           ELSE IF s = S_False THEN BoolV(FALSE)
           ELSE IF s = S_None THEN NoneV
           ELSE IF IntParses(s) THEN IntV(ParseInt(s))
           ELSE Raise("SyntaxError")

\* type(returned)(expected)
Construct(returned, expected, interp) ==
    CASE returned.t = "bool" -> BoolV(Truthy(expected))
      [] returned.t = "int" ->
            IF IsNumeric(expected) THEN IntV(NumVal(expected))
            ELSE IF expected.t = "str"
                 THEN (IF IntParses(expected.s) THEN IntV(ParseInt(expected.s))
                       ELSE Raise("ValueError"))
            ELSE Raise("TypeError")
      [] returned.t = "str" -> StrV(Str(expected))
      [] returned.t = "none" -> Raise("TypeError")
      [] returned.t = "list" ->
            IF expected.t = "list" THEN expected
            ELSE IF expected.t = "str"
                 THEN ListV([i \in 1..Len(expected.s) |-> StrV(<<expected.s[i]>>)])
            ELSE IF expected.t = "err" /\ interp # "py3" THEN ListV(expected.items)
            ELSE Raise("TypeError")
      [] returned.t = "err" ->
            IF returned.cls = "Exception"
            THEN ErrV(returned.cls, returned.n + 1, expected)
            ELSE Raise("TypeError")

\* ------------------------------------------------------------- TypeCoercer
\* the cast without the rewrite of the text "False"
cast_expected_plain(expected, returned, interp) ==
    LET made == Construct(returned, expected, interp)
    IN IF IsRaise(made) THEN expected ELSE made

cast_expected_to_returned_type(expected, returned, interp) ==
    LET new_expected == expected
        expected1 == IF PyEq(expected, StrV(S_False)) /\ returned.t = "bool"
                     THEN BoolV(FALSE) ELSE expected
        made == Construct(returned, expected1, interp)
    IN IF IsRaise(made) THEN new_expected ELSE made

\* --------------------------------------------------------- AssertionEngine
Failure(msg) == StrV(S_FalsePrefix \o msg)

\* the message formats its first argument twice
assert_equal_repeats_expected(expected, returned) ==
    IF PyEq(expected, returned) THEN BoolV(TRUE)
    ELSE Failure(Str(expected) \o S_NotEqualTo \o Str(expected))

assert_equal(expected, returned) ==
    IF PyEq(expected, returned) THEN BoolV(TRUE)
    ELSE Failure(Str(expected) \o S_NotEqualTo \o Str(returned))

assert_not_equal(expected, returned) ==
    IF ~PyEq(expected, returned) THEN BoolV(TRUE)
    ELSE Failure(Str(expected) \o S_EqualTo \o Str(returned))

assert_true(returned) ==
    IF returned.t = "bool" /\ returned.b THEN BoolV(TRUE)
    ELSE Failure(Str(returned) \o S_NotTrue)

assert_false(returned) ==
    LET returned1 == IF returned.t = "str" THEN Eval(returned.s) ELSE returned
    IN IF IsRaise(returned1) THEN returned1
       ELSE IF returned1.t = "bool" /\ ~returned1.b THEN BoolV(TRUE)
       ELSE Failure(Str(returned1) \o S_NotFalse)

assert_in(expected, returned, interp) ==
    LET r == PyIn(expected, returned, interp)
    IN IF r = "raise" THEN Raise("TypeError")
       ELSE IF r = "T" THEN BoolV(TRUE)
       ELSE Failure(Str(returned) \o S_NotFalse)

assert_not_in(expected, returned, interp) ==
    LET r == PyIn(expected, returned, interp)
    IN IF r = "raise" THEN Raise("TypeError")
       ELSE IF r = "F" THEN BoolV(TRUE)
       ELSE Failure(Str(returned) \o S_NotFalse)

\* the operands compared the other way round
assert_greater_swapped(expected, returned, interp) ==
    LET c == Cmp(returned, expected, interp)
    IN IF c = "raise" THEN Raise("TypeError")
       ELSE IF c = "gt" THEN BoolV(TRUE)
       ELSE Failure(Str(returned) \o S_NotFalse)

assert_greater(expected, returned, interp) ==
    LET c == Cmp(expected, returned, interp)
    IN IF c = "raise" THEN Raise("TypeError")
       ELSE IF c = "gt" THEN BoolV(TRUE)
       ELSE Failure(Str(returned) \o S_NotFalse)

assert_greater_equal(expected, returned, interp) ==
    LET c == Cmp(expected, returned, interp)
    IN IF c = "raise" THEN Raise("TypeError")
       ELSE IF c \in {"gt", "eq"} THEN BoolV(TRUE)
       ELSE Failure(Str(returned) \o S_NotFalse)

assert_less(expected, returned, interp) ==
    LET c == Cmp(expected, returned, interp)
    IN IF c = "raise" THEN Raise("TypeError")
       ELSE IF c = "lt" THEN BoolV(TRUE)
       ELSE Failure(Str(returned) \o S_NotFalse)

assert_less_equal(expected, returned, interp) ==
    LET c == Cmp(expected, returned, interp)
    IN IF c = "raise" THEN Raise("TypeError")
       ELSE IF c \in {"lt", "eq"} THEN BoolV(TRUE)
       ELSE Failure(Str(returned) \o S_NotFalse)

\* ------------------------------------------------------- collaborator agent
\* sys.list_modules and the functions the minion has loaded
Modules == ListV(<<StrV(M_test), StrV(M_file)>>)
Functions == <<StrV(F_test_echo), StrV(F_test_ping), StrV(F_file_exists)>>

\* sys.list_functions <module>: the loaded functions of that module
ListFunctions(module_name) ==
    ListV(SelectSeq(Functions, LAMBDA f : SplitDot(f.s)[1] = module_name.s))

\* What salt_lc.function does for the function under test: it returns a value
\* or raises.  The exception object is the first object created (identity 1).
DispatchError(cls) == Val("raise", FALSE, 0, <<>>, <<ErrV(cls, 1, StrV(S_Boom))>>, cls)

\* which of the four call forms call_salt_command takes
CallForm(args, kwargs) ==
    IF Truthy(args) /\ Truthy(kwargs) THEN "args+kwargs"
    ELSE IF Truthy(args) THEN "args"
    ELSE IF Truthy(kwargs) THEN "kwargs"
    ELSE "bare"

\* call_salt_command: the value salt_lc.function gives, an exception it
\* raises being caught and returned as the value
call_salt_command(fun, args, kwargs, outcome) ==
    [call |-> [fun |-> fun, form |-> CallForm(args, kwargs)],
     value |-> IF IsRaise(outcome) THEN outcome.items[1] ELSE outcome]

\* ----------------------------------------------------------- TestValidator
\* the list names an assertion run_test has no branch for
assertions_list_with_unrouted ==
    ListV(<<StrV(A_assertEqual), StrV(A_assertNotEqual),
            StrV(A_assertTrue), StrV(A_assertFalse),
            StrV(A_assertIn), StrV(A_assertGreater),
            StrV(A_assertGreaterEqual),
            StrV(A_assertLess), StrV(A_assertLessEqual), StrV(A_assertBogus)>>)

assertions_list ==
    ListV(<<StrV(A_assertEqual), StrV(A_assertNotEqual),
            StrV(A_assertTrue), StrV(A_assertFalse),
            StrV(A_assertIn), StrV(A_assertGreater),
            StrV(A_assertGreaterEqual),
            StrV(A_assertLess), StrV(A_assertLessEqual)>>)

is_valid_module(module_name) == PyIn(module_name, Modules, "py3") = "T"

is_valid_function(module_name, function) ==
    LET r == call_salt_command(StrV(F_sys_list_functions), ListV(<<module_name>>),
                               NoneV, ListFunctions(module_name))
    IN [calls |-> <<r.call>>,
        ret |-> PyIn(StrV(module_name.s \o <<".">> \o function.s), r.value, "py3") = "T"]

\* ret is the boolean returned, or Raise(..) when module_and_function has no
\* split method or its split does not unpack into two names; calls are the
\* agent calls made on the way
is_valid_test(test_dict) ==
    LET m_and_f == test_dict.module_and_function
        assertion == test_dict.assertion
        expected_return == test_dict.expected_return
        parts == IF m_and_f.t = "str" THEN SplitDot(m_and_f.s) ELSE <<>>
        splits == m_and_f.t = "str" /\ Len(parts) = 2
        fn == IF Truthy(m_and_f) /\ splits
              THEN is_valid_function(StrV(parts[1]), StrV(parts[2]))
              ELSE [calls |-> <<>>, ret |-> FALSE]
        tots1 == IF Truthy(m_and_f)
                 THEN 1 + (IF splits /\ is_valid_module(StrV(parts[1])) THEN 1 ELSE 0)
                        + (IF fn.ret THEN 1 ELSE 0)
                 ELSE 0
        tots2 == IF Truthy(assertion)
                 THEN 1 + (IF PyIn(assertion, assertions_list, "py3") = "T" THEN 1 ELSE 0)
                 ELSE 0
        tots3 == IF Truthy(expected_return) THEN 1 ELSE 0
    IN IF Truthy(m_and_f) /\ ~splits
       THEN [calls |-> <<>>,
             ret |-> Raise(IF m_and_f.t = "str" THEN "ValueError" ELSE "AttributeError")]
       ELSE [calls |-> fn.calls, ret |-> BoolV(tots1 + tots2 + tots3 >= 6)]

\* -------------------------------------------------------------- TestRunner
\* the evaluator run_test selects for an assertion name, "" for none
Evaluator(assertion) ==
    CASE assertion.t # "str" -> ""
      [] assertion.s = A_assertEqual -> "assert_equal"
      [] assertion.s = A_assertNotEqual -> "assert_not_equal"
      [] assertion.s = A_assertTrue -> "assert_true"
      [] assertion.s = A_assertFalse -> "assert_false"
      [] assertion.s = A_assertIn -> "assert_in"
      [] assertion.s = A_assertNotIn -> "assert_not_in"
      [] assertion.s = A_assertGreater -> "assert_greater"
      [] assertion.s = A_assertGreaterEqual -> "assert_greater_equal"
      [] assertion.s = A_assertLess -> "assert_less"
      [] assertion.s = A_assertLessEqual -> "assert_less_equal"
      [] OTHER -> ""

\* the operands run_test hands the selected evaluator
Operands(evaluator, expected_return, actual_return) ==
    IF evaluator \in {"assert_true", "assert_false"} THEN <<expected_return>>
    ELSE IF evaluator = "" THEN <<>>
    ELSE <<expected_return, actual_return>>

\* a named evaluator applied to its operands
Apply(evaluator, ops, interp) ==
    CASE evaluator = "assert_equal" -> assert_equal(ops[1], ops[2])
      [] evaluator = "assert_not_equal" -> assert_not_equal(ops[1], ops[2])
      [] evaluator = "assert_true" -> assert_true(ops[1])
      [] evaluator = "assert_false" -> assert_false(ops[1])
      [] evaluator = "assert_in" -> assert_in(ops[1], ops[2], interp)
      [] evaluator = "assert_not_in" -> assert_not_in(ops[1], ops[2], interp)
      [] evaluator = "assert_greater" -> assert_greater(ops[1], ops[2], interp)
      [] evaluator = "assert_greater_equal" -> assert_greater_equal(ops[1], ops[2], interp)
      [] evaluator = "assert_less" -> assert_less(ops[1], ops[2], interp)
      [] evaluator = "assert_less_equal" -> assert_less_equal(ops[1], ops[2], interp)
      [] OTHER -> BoolV(FALSE)

\* run_test, the branch of a valid test: dispatch, coerce, evaluate.  value
\* is what run_test returns, or Raise(..) when an exception leaves it; the
\* other fields record what it did on the way
RunValid(test_dict, valid, outcome, interp) ==
    LET r == call_salt_command(test_dict.module_and_function,
                               test_dict.args, test_dict.kwargs, outcome)
        actual_return == r.value
        expected_return == cast_expected_to_returned_type(
                               test_dict.expected_return, actual_return, interp)
        evaluator == Evaluator(test_dict.assertion)
        ops == Operands(evaluator, expected_return, actual_return)
    IN [valid |-> valid.ret, calls |-> Append(valid.calls, r.call),
        actual |-> actual_return, expected |-> expected_return,
        evaluator |-> evaluator, operands |-> ops,
        value |-> Apply(evaluator, ops, interp)]

\* a test that fails validation is run all the same
RunInvalid_executes(test_dict, valid, outcome, interp) ==
    RunValid(test_dict, valid, outcome, interp)

\* run_test, the branch of a test that fails validation
RunInvalid(test_dict, valid, outcome, interp) ==
    [valid |-> valid.ret, calls |-> valid.calls,
     actual |-> NoneV, expected |-> NoneV, evaluator |-> "",
     operands |-> <<>>, value |-> StrV(S_InvalidTest)]

\* SaltCheck.run_test
run_test(test_dict, outcome, interp) ==
    LET valid == is_valid_test(test_dict)
    IN IF IsRaise(valid.ret)
       THEN [valid |-> valid.ret, calls |-> valid.calls,
             actual |-> NoneV, expected |-> NoneV, evaluator |-> "",
             operands |-> <<>>, value |-> valid.ret]
       ELSE IF ~valid.ret.b
       THEN RunInvalid(test_dict, valid, outcome, interp)
       ELSE RunValid(test_dict, valid, outcome, interp)

\* ----------------------------------------------------------- TestDiscovery
\* what open + yaml.load give for one .tst file: a mapping of test names to
\* test bodies, or an exception (unreadable, unparsable or empty file)
FileOk(tests) == [ok |-> TRUE, tests |-> tests]
FileBad == [ok |-> FALSE, tests |-> <<>>]

\* a name already in test_dict keeps its body
load_file_keeps_first(dict, content) ==
    [k \in (DOMAIN dict) \cup (DOMAIN content.tests) |->
        IF k \in DOMAIN dict THEN dict[k] ELSE content.tests[k]]

\* StateTestLoader.load_file: test_dict after the file's entries are
\* assigned; callers test content.ok first, the exception propagates
load_file(dict, content) ==
    [k \in (DOMAIN dict) \cup (DOMAIN content.tests) |->
        IF k \in DOMAIN content.tests THEN content.tests[k] ELSE dict[k]]

\* the search roots are named by their environment; a file tree gives, for
\* each root, the directories os.walk meets under it, in the order it meets
\* them: the last component of dirName, and whether "salt-check-tests" is
\* among its subdirectories
Roots == {"dev", "base"}
Dir(name, tests) == [name |-> name, tests |-> tests]
NoDir == [root |-> "", idx |-> 0]

\* SaltCheck.get_state_search_path_list; environment "" is an unset one
get_state_search_path_list(environment) ==
    IF environment # "" THEN <<environment, "base">> ELSE <<"base">>

\* the roots are searched last to first
find_state_dir_reversed(search_paths, tree, state_name) ==
    LET Hits(r) == {i \in 1..Len(tree[r]) :
                       tree[r][i].name = state_name /\ tree[r][i].tests}
        found == {k \in 1..Len(search_paths) : Hits(search_paths[k]) # {}}
    IN IF found = {} THEN NoDir
       ELSE LET k == CHOOSE x \in found : \A y \in found : y <= x
                r == search_paths[k]
            IN [root |-> r, idx |-> CHOOSE i \in Hits(r) : \A j \in Hits(r) : i <= j]

\* StateTestLoader.find_state_dir: the first directory, root by root in the
\* order of search_paths, that has the state's name and holds the tests
\* subdirectory; NoDir for None
find_state_dir(search_paths, tree, state_name) ==
    LET Hits(r) == {i \in 1..Len(tree[r]) :
                       tree[r][i].name = state_name /\ tree[r][i].tests}
        found == {k \in 1..Len(search_paths) : Hits(search_paths[k]) # {}}
    IN IF found = {} THEN NoDir
       ELSE LET k == CHOOSE x \in found : \A y \in found : x <= y
                r == search_paths[k]
            IN [root |-> r, idx |-> CHOOSE i \in Hits(r) : \A j \in Hits(r) : i <= j]

\* SaltCheck.get_top_states, the loop over returned['base']
RECURSIVE TopStates(_, _)
TopStates(base, alt_states) ==
    IF Len(base) = 0 THEN alt_states
    ELSE LET state_name == SplitDot(Head(base))[1]
         IN TopStates(Tail(base),
                      IF \E i \in 1..Len(alt_states) : alt_states[i] = state_name
                      THEN alt_states ELSE Append(alt_states, state_name))
\* every compound name is listed, repeated or not
get_top_states_all(base) == [i \in 1..Len(base) |-> SplitDot(base[i])[1]]

\* SaltCheck.get_top_states
get_top_states(base) == TopStates(base, <<>>)

\* ------------------------------------------------------------------ inputs
Test(m_and_f, args, assertion, expected_return) ==
    [module_and_function |-> m_and_f, args |-> args, kwargs |-> NoneV,
     assertion |-> assertion, expected_return |-> expected_return]

AssertionNames == {A_assertEqual, A_assertNotEqual, A_assertTrue, A_assertFalse,
                   A_assertIn, A_assertNotIn, A_assertGreater,
                   A_assertGreaterEqual, A_assertLess, A_assertLessEqual}

MafValues == {NoneV, StrV(S_Empty), IntV(5), StrV(F_test_echo), StrV(F_test_nope),
              StrV(F_nope_echo), StrV(F_testecho), StrV(F_a_b_c)}
ArgsValues == {NoneV, ListV(<<StrV(S_ThisWorks)>>)}
AssertionValues == {NoneV, StrV(S_Empty), StrV(A_assertBogus)}
                       \cup {StrV(a) : a \in AssertionNames}
ExpectedValues == {NoneV, BoolV(TRUE), BoolV(FALSE), IntV(0), IntV(5), IntV(-1),
                   StrV(S_Empty), StrV(S_5), StrV(S_True), StrV(S_False),
                   StrV(S_Garbage), StrV(S_ThisWorks), StrV(S_SomethingElse)}
Tests == {Test(m, a, k, e) : m \in MafValues, a \in ArgsValues,
                             k \in AssertionValues, e \in ExpectedValues}

\* what the function under test may do
ReturnValues == {NoneV, BoolV(TRUE), BoolV(FALSE), IntV(0), IntV(1), IntV(5),
                 StrV(S_5), StrV(S_False), StrV(S_ThisWorks),
                 ListV(<<IntV(1), IntV(5)>>)}
Outcomes == ReturnValues \cup {DispatchError("Exception"), DispatchError("UnicodeDecodeError")}

\* operands of the evaluators when they are called directly
EvalValues == {IntV(-1), IntV(0), IntV(1), IntV(100), BoolV(TRUE), BoolV(FALSE),
               NoneV, StrV(S_5), StrV(S_ThisWorks), ListV(<<IntV(1), IntV(5)>>)}
EvaluatorNames == {"assert_equal", "assert_not_equal", "assert_true", "assert_false",
                   "assert_in", "assert_not_in", "assert_greater",
                   "assert_greater_equal", "assert_less", "assert_less_equal"}

\* the tests found in .tst files
TestNames == {"t1", "dup"}
FileTests == {Test(StrV(F_test_echo), ListV(<<StrV(S_ThisWorks)>>),
                   StrV(A_assertEqual), StrV(S_ThisWorks)),
              Test(StrV(F_test_echo), NoneV, NoneV, StrV(S_ThisWorks)),
              Test(StrV(F_testecho), NoneV, StrV(A_assertEqual), StrV(S_ThisWorks))}
FileContents == {FileBad} \cup
    {FileOk(f) : f \in UNION {[ns -> FileTests] : ns \in SUBSET TestNames}}
FileLists == UNION {[1..n -> FileContents] : n \in 0..MaxFiles}
SuiteOutcomes == {StrV(S_ThisWorks), StrV(S_SomethingElse), DispatchError("Exception")}

\* the file trees below the search roots, and the minion's environment
DirNames == {U_apache, U_nginx}
Dirs == {Dir(n, t) : n \in DirNames, t \in BOOLEAN}
RootWalks == UNION {[1..n -> Dirs] : n \in 0..MaxDirs}
Walks == {[environment |-> e, tree |-> t] : e \in {"", "dev"}, t \in [Roots -> RootWalks]}
NoWalk == [environment |-> "", tree |-> [r \in Roots |-> <<>>]]
StateNames == {S_Empty, U_apache}

\* what state.show_top gives: the compound names of the base environment,
\* or an error
TopNames == {U_apache, U_apache_vhost, U_nginx, U_dot_x}
TopOk(base) == [ok |-> TRUE, base |-> base]
TopError == [ok |-> FALSE, base |-> <<>>]
TopResults == {TopError} \cup
    {TopOk(b) : b \in UNION {[1..n -> TopNames] : n \in 0..MaxTop}}

\* a highstate run meets fewer file trees and test files for each state
HighstateRootWalks == {<<>>, <<Dir(U_apache, TRUE)>>, <<Dir(U_nginx, TRUE)>>}
HighstateWalks ==
    {[environment |-> "dev", tree |-> [r \in Roots |-> IF r = "dev" THEN d ELSE b]] :
        d \in HighstateRootWalks, b \in HighstateRootWalks}
HighstateFileLists == {<<>>} \cup {<<FileOk(f)>> : f \in [{"t1"} -> FileTests]}

\* ------------------------------------------------------------------- state
VARIABLES
    interp,        \* the interpreter of this minion
    pc,            \* "idle", "dir" (state directory looked up), "found" (it is
                   \* there), "suite" (tests gathered), "high" (between states
                   \* of a highstate run),
                   \* "returned", "raised"
    test_files,    \* stl.test_files, each with what reading it gives
    nloaded,       \* files load_test_suite has loaded
    test_dict,     \* stl.test_dict
    results_dict,  \* results_dict of run_state_tests
    last,          \* the most recent call and what it did
    state_name,    \* the state run_state_tests was called for
    walk,          \* the file trees and environment find_state_dir searches
    mydir,         \* what find_state_dir returned
    mode,          \* "state" or "highstate": the function the caller ran
    top,           \* what state.show_top gave
    states,        \* states of run_highstate_tests
    ran,           \* the calls of run_state_tests that returned, in order
    return_dict    \* return_dict of run_highstate_tests

suite_vars == <<test_files, nloaded, test_dict, results_dict>>
dir_vars == <<state_name, walk, mydir>>
high_vars == <<mode, top, states, ran, return_dict>>
vars == <<interp, pc, test_files, nloaded, test_dict, results_dict, last,
          state_name, walk, mydir, mode, top, states, ran, return_dict>>

Init ==
    /\ interp \in Interps
    /\ pc = "idle"
    /\ test_files = <<>>
    /\ nloaded = 0
    /\ test_dict = <<>>
    /\ results_dict = <<>>
    /\ last = [op |-> "none"]
    /\ state_name = <<>>
    /\ walk = NoWalk
    /\ mydir = NoDir
    /\ mode = ""
    /\ top = TopError
    /\ states = <<>>
    /\ ran = <<>>
    /\ return_dict = <<>>

\* salt_check.run_test test=...: one declaration given on the command line
RunTest ==
    /\ pc = "idle"
    /\ \E test \in Tests, outcome \in Outcomes :
          LET r == run_test(test, outcome, interp)
          IN /\ last' = [op |-> "run_test", key |-> "", test |-> test,
                         outcome |-> outcome, r |-> r]
             /\ pc' = IF IsRaise(r.value) THEN "raised" ELSE "returned"
    /\ UNCHANGED <<interp, suite_vars, dir_vars, high_vars>>

\* SaltCheck.cast_expected_to_returned_type called on its own
CastExpected ==
    /\ pc = "idle"
    /\ \E expected \in ExpectedValues, returned \in ReturnValues \cup {IntV(-1)} :
          last' = [op |-> "cast", expected |-> expected, returned |-> returned,
                   value |-> cast_expected_to_returned_type(expected, returned, interp)]
    /\ pc' = "returned"
    /\ UNCHANGED <<interp, suite_vars, dir_vars, high_vars>>

\* one evaluator of SaltCheck called on its own
CallEvaluator ==
    /\ pc = "idle"
    /\ \E evaluator \in EvaluatorNames, expected \in EvalValues, returned \in EvalValues :
          LET ops == IF evaluator \in {"assert_true", "assert_false"}
                     THEN <<returned>> ELSE <<expected, returned>>
              value == Apply(evaluator, ops, interp)
          IN /\ last' = [op |-> "assert", evaluator |-> evaluator,
                         operands |-> ops, value |-> value]
             /\ pc' = IF IsRaise(value) THEN "raised" ELSE "returned"
    /\ UNCHANGED <<interp, suite_vars, dir_vars, high_vars>>

\* run_state_tests up to find_state_dir: the search paths of the minion's
\* environment are searched for the state's directory
FindStateDir(name, walks) ==
    /\ \E w \in walks :
          /\ walk' = w
          /\ mydir' = find_state_dir(get_state_search_path_list(w.environment),
                                     w.tree, name)
    /\ state_name' = name
    /\ pc' = "dir"
    /\ last' = [op |-> "run_state_tests"]
    /\ UNCHANGED <<interp, suite_vars>>

\* run_state_tests returns report: to the caller, or into the return_dict of
\* run_highstate_tests, whose loop goes on with fresh locals
ReturnReport(report) ==
    IF mode = "highstate"
    THEN /\ return_dict' = (state_name :> report) @@ return_dict
         /\ ran' = Append(ran, [state |-> state_name, report |-> report])
         /\ pc' = "high"
         /\ test_files' = <<>>
         /\ nloaded' = 0
         /\ test_dict' = <<>>
         /\ results_dict' = <<>>
         /\ walk' = NoWalk
         /\ mydir' = NoDir
         /\ UNCHANGED <<interp, last, state_name, mode, top, states>>
    ELSE /\ pc' = "returned"
         /\ UNCHANGED <<interp, suite_vars, last, dir_vars, high_vars>>

\* salt_check.run_state_tests without a state name: "State name required"
StateNameRequired ==
    /\ pc = "idle"
    /\ \E name \in StateNames :
          /\ ~Truthy(StrV(name))
          /\ state_name' = name
    /\ mode' = "state"
    /\ pc' = "returned"
    /\ last' = [op |-> "run_state_tests"]
    /\ UNCHANGED <<interp, suite_vars, walk, mydir, top, states, ran, return_dict>>

\* salt_check.run_state_tests state_name
StateTestsStart ==
    /\ pc = "idle"
    /\ \E name \in StateNames :
          /\ Truthy(StrV(name))
          /\ FindStateDir(name, Walks)
    /\ mode' = "state"
    /\ UNCHANGED <<top, states, ran, return_dict>>

\* run_state_tests, no state directory found: {state_name: {}}
StateTestsNotFound ==
    /\ pc = "dir"
    /\ mydir = NoDir
    /\ ReturnReport(results_dict)

\* run_state_tests, state directory found: the branch of "if mydir:" is
\* entered, and the search paths are looked at no more
StateDirFound ==
    /\ pc = "dir"
    /\ mydir # NoDir
    /\ pc' = "found"
    /\ walk' = NoWalk
    /\ UNCHANGED <<interp, suite_vars, last, state_name, mydir, high_vars>>

\* stl.gather_files(mydir) lists the .tst files below mydir, the last use
\* of what the search found
GatherFiles ==
    /\ pc = "found"
    /\ \E files \in IF mode = "highstate" THEN HighstateFileLists ELSE FileLists :
          test_files' = files
    /\ pc' = "suite"
    /\ mydir' = NoDir
    /\ UNCHANGED <<interp, nloaded, test_dict, results_dict, last, state_name,
                   walk, high_vars>>

\* load_test_suite: the next file is loaded
LoadFile ==
    /\ pc = "suite"
    /\ nloaded < Len(test_files)
    /\ LET content == test_files[nloaded + 1]
       IN IF content.ok
          THEN /\ test_dict' = load_file(test_dict, content)
               /\ nloaded' = nloaded + 1
               /\ pc' = pc
          ELSE /\ pc' = "raised"
               /\ UNCHANGED <<test_dict, nloaded>>
    /\ UNCHANGED <<interp, test_files, results_dict, last, dir_vars, high_vars>>

\* the loop of run_state_tests: the next test of test_dict is run
RunNextTest ==
    /\ pc = "suite"
    /\ nloaded = Len(test_files)
    /\ \E key \in (DOMAIN test_dict) \ (DOMAIN results_dict), outcome \in SuiteOutcomes :
          LET r == run_test(test_dict[key], outcome, interp)
          IN /\ last' = [op |-> "run_test", key |-> key, test |-> test_dict[key],
                         outcome |-> outcome, r |-> r]
             /\ IF IsRaise(r.value)
                THEN /\ pc' = "raised"
                     /\ UNCHANGED results_dict
                ELSE /\ pc' = pc
                     /\ results_dict' = (key :> r.value) @@ results_dict
    /\ UNCHANGED <<interp, test_files, nloaded, test_dict, dir_vars, high_vars>>

\* run_state_tests returns {state_name: results_dict}
StateTestsReturn ==
    /\ pc = "suite"
    /\ nloaded = Len(test_files)
    /\ DOMAIN test_dict = DOMAIN results_dict
    /\ ReturnReport(results_dict)

\* salt_check.run_highstate_tests: get_top_states asks state.show_top
HighstateStart ==
    /\ pc = "idle"
    /\ \E t \in TopResults :
          /\ top' = t
          /\ IF t.ok
             THEN /\ states' = get_top_states(t.base)
                  /\ pc' = "high"
             ELSE /\ states' = <<>>
                  /\ pc' = "raised"
    /\ mode' = "highstate"
    /\ last' = [op |-> "run_highstate_tests"]
    /\ UNCHANGED <<interp, suite_vars, dir_vars, ran, return_dict>>

\* the loop of run_highstate_tests calls run_state_tests(state); a state
\* without a name gets "State name required", which return_dict.update rejects
HighstateRunState ==
    /\ pc = "high"
    /\ Len(ran) < Len(states)
    /\ LET state == states[Len(ran) + 1]
       IN IF Truthy(StrV(state))
          THEN FindStateDir(state, HighstateWalks)
          ELSE /\ pc' = "raised"
               /\ state_name' = state
               /\ last' = [op |-> "run_state_tests"]
               /\ UNCHANGED <<interp, suite_vars, walk, mydir>>
    /\ UNCHANGED high_vars

\* run_highstate_tests returns return_dict
HighstateReturn ==
    /\ pc = "high"
    /\ Len(ran) = Len(states)
    /\ pc' = "returned"
    /\ UNCHANGED <<interp, suite_vars, last, dir_vars, high_vars>>

Next ==
    \/ RunTest
    \/ CastExpected
    \/ CallEvaluator
    \/ StateNameRequired
    \/ StateTestsStart
    \/ StateTestsNotFound
    \/ StateDirFound
    \/ GatherFiles
    \/ LoadFile
    \/ RunNextTest
    \/ StateTestsReturn

Spec == Init /\ [][Next]_vars

\* salt_check.run_highstate_tests and what it calls
NextHighstate ==
    \/ HighstateStart
    \/ HighstateRunState
    \/ StateTestsNotFound
    \/ StateDirFound
    \/ GatherFiles
    \/ LoadFile
    \/ RunNextTest
    \/ StateTestsReturn
    \/ HighstateReturn

SpecHighstate == Init /\ [][NextHighstate]_vars

\* ------------------------------------------------------------------ claims
IsRunTest == last.op = "run_test"
\* the object call_salt_command hands back for the outcome of the dispatch
ActualOf(outcome) == IF IsRaise(outcome) THEN outcome.items[1] ELSE outcome
FailsValidation(test) == LET v == is_valid_test(test).ret IN v.t = "bool" /\ ~v.b
PassesValidation(test) == LET v == is_valid_test(test).ret IN v.t = "bool" /\ v.b
TargetDispatched ==
    \E i \in 1..Len(last.r.calls) : last.r.calls[i].fun = last.test.module_and_function

\* C1: a declaration for which is_valid_test returns false is never
\* dispatched to the agent, run_test returns "False: Invalid test" for it,
\* and in run_state_tests that value is stored under the declaration's name:
\* every invalid declaration run so far has its entry, and the report
\* returned has an entry for every invalid declaration of the collection.
C1_InvalidReportedNotExecuted ==
    /\ (IsRunTest /\ FailsValidation(last.test)) =>
          /\ ~TargetDispatched
          /\ last.r.value = StrV(S_InvalidTest)
          /\ last.key # "" => /\ last.key \in DOMAIN results_dict
                              /\ results_dict[last.key] = StrV(S_InvalidTest)
    /\ \A k \in DOMAIN results_dict :
          FailsValidation(test_dict[k]) => results_dict[k] = StrV(S_InvalidTest)
    /\ pc = "returned" =>
          \A k \in DOMAIN test_dict :
              FailsValidation(test_dict[k]) => k \in DOMAIN results_dict

\* an invalid declaration of a test file has been run and is in the report
C1_Witness ==
    /\ IsRunTest
    /\ last.key = "dup"
    /\ FailsValidation(last.test)
    /\ last.test.module_and_function = StrV(F_test_echo)
    /\ "dup" \in DOMAIN results_dict
    /\ Len(last.r.calls) = 1

\* C2: no test makes run_state_tests raise: whenever a test of the merged
\* collection has been run, run_state_tests is still running or has returned,
\* and the test's result is stored under its name; the report returned has
\* one result per name of the collection.
C2_BatchNeverAborts ==
    /\ (IsRunTest /\ last.key # "") =>
          /\ pc # "raised"
          /\ last.key \in DOMAIN results_dict
    /\ (pc = "returned" /\ last.op = "run_test" /\ last.key # "") =>
          DOMAIN results_dict = DOMAIN test_dict

\* C3: when the dispatch raises, run_test goes on with the exception object
\* as the actual value: it is the type template of the coercion, it is the
\* last operand of the evaluator selected, and run_test returns a value.
C3_DispatchErrorBecomesActual ==
    (IsRunTest /\ PassesValidation(last.test) /\ IsRaise(last.outcome)) =>
        /\ last.r.actual = last.outcome.items[1]
        /\ last.r.expected = cast_expected_to_returned_type(
                                 last.test.expected_return, last.outcome.items[1], interp)
        /\ Len(last.r.operands) > 0
        /\ last.r.operands[Len(last.r.operands)] = last.outcome.items[1]
        /\ ~IsRaise(last.r.value)

\* the conditions of the validation contract, one by one
HasTwoNames(test) ==
    /\ test.module_and_function.t = "str"
    /\ Len(SplitDot(test.module_and_function.s)) = 2
NamespaceRegistered(test) ==
    \E i \in 1..Len(Modules.items) :
        Modules.items[i].s = SplitDot(test.module_and_function.s)[1]
OperationRegistered(test) ==
    \E i \in 1..Len(Functions) : Functions[i] = test.module_and_function
AssertionInEnumeration(test) ==
    test.assertion.t = "str" /\ test.assertion.s \in AssertionNames
ExpectedPresent(test) == test.expected_return # NoneV
MeetsContract(test) ==
    /\ HasTwoNames(test)
    /\ NamespaceRegistered(test)
    /\ OperationRegistered(test)
    /\ AssertionInEnumeration(test)
    /\ ExpectedPresent(test)

\* C4: is_valid_test returns true exactly for the declarations that meet all
\* five conditions (two names, registered namespace, registered operation,
\* assertion of the enumeration, expected-return present) and false for all
\* others; a falsy but present expected-return does not make a test invalid.
C4_ValidIffAllConditions ==
    IsRunTest => (PassesValidation(last.test) <=> MeetsContract(last.test))

\* the evaluator that belongs to each assertion name of the enumeration
OwnEvaluator(a) ==
    CASE a = A_assertEqual -> "assert_equal"
      [] a = A_assertNotEqual -> "assert_not_equal"
      [] a = A_assertTrue -> "assert_true"
      [] a = A_assertFalse -> "assert_false"
      [] a = A_assertIn -> "assert_in"
      [] a = A_assertNotIn -> "assert_not_in"
      [] a = A_assertGreater -> "assert_greater"
      [] a = A_assertGreaterEqual -> "assert_greater_equal"
      [] a = A_assertLess -> "assert_less"
      [] a = A_assertLessEqual -> "assert_less_equal"

\* a declaration that is valid but for the assertion name it carries
ValidButForAssertion(test) ==
    PassesValidation([test EXCEPT !.assertion = StrV(A_assertEqual)])

\* C5: each of the ten assertion names is accepted by the validator and is
\* routed to its own evaluator; the result of an assertNotIn declaration is
\* the one assert_not_in computes.
C5_EveryKindAcceptedAndRouted ==
    (IsRunTest /\ AssertionInEnumeration(last.test) /\ ValidButForAssertion(last.test)) =>
        /\ PassesValidation(last.test)
        /\ last.r.evaluator = OwnEvaluator(last.test.assertion.s)
        /\ last.test.assertion.s = A_assertNotIn =>
              last.r.value = assert_not_in(
                  cast_expected_to_returned_type(last.test.expected_return,
                                                 ActualOf(last.outcome), interp),
                  ActualOf(last.outcome), interp)

\* C6: a valid assertTrue declaration passes exactly when the dispatch
\* returned the boolean true, a valid assertFalse declaration exactly when it
\* returned the boolean false.
C6_TrueFalseJudgeActual ==
    (IsRunTest /\ PassesValidation(last.test)) =>
        /\ last.test.assertion.s = A_assertTrue =>
              (last.r.value = BoolV(TRUE) <=> ActualOf(last.outcome) = BoolV(TRUE))
        /\ last.test.assertion.s = A_assertFalse =>
              (last.r.value = BoolV(TRUE) <=> ActualOf(last.outcome) = BoolV(FALSE))

\* text x occurs in text s
Contains(s, x) == IsSubstring(x, s)
\* the same Python value: identical, or the same number as bool and as int
SameValue(x, y) == x = y \/ (IsNumeric(x) /\ IsNumeric(y) /\ NumVal(x) = NumVal(y))
Passed(value) == value = BoolV(TRUE)
IsFailure(value) == value.t = "str" /\ SubSeq(value.s, 1, 7) = S_FalsePrefix

\* C7: a valid assertEqual declaration passes exactly when its
\* expected-return, coerced to the type of the dispatch result, equals the
\* dispatch result, and otherwise returns a failure whose text holds both
\* the coerced expected value and the actual value; assert_equal(a, a)
\* passes for every a and assert_equal(a, b) fails for values that differ.
C7_EqualComparesCoercedExpected ==
    /\ (IsRunTest /\ PassesValidation(last.test)
            /\ last.test.assertion.s = A_assertEqual) =>
          LET actual == ActualOf(last.outcome)
              coerced == cast_expected_to_returned_type(
                             last.test.expected_return, actual, interp)
          IN IF SameValue(coerced, actual)
             THEN Passed(last.r.value)
             ELSE /\ IsFailure(last.r.value)
                  /\ Contains(last.r.value.s, Str(coerced))
                  /\ Contains(last.r.value.s, Str(actual))
    /\ (last.op = "assert" /\ last.evaluator = "assert_equal") =>
          IF last.operands[1] = last.operands[2]
          THEN Passed(last.value)
          ELSE IF ~SameValue(last.operands[1], last.operands[2])
          THEN /\ IsFailure(last.value)
               /\ Contains(last.value.s, Str(last.operands[1]))
               /\ Contains(last.value.s, Str(last.operands[2]))
          ELSE TRUE

\* the end-to-end scenario: "Something else" expected, "This works!" returned
C7_Witness ==
    /\ IsRunTest
    /\ last.test.assertion = StrV(A_assertEqual)
    /\ last.test.expected_return = StrV(S_SomethingElse)
    /\ last.outcome = StrV(S_ThisWorks)
    /\ last.r.value = StrV(S_FalsePrefix \o S_SomethingElse \o S_NotEqualTo \o S_ThisWorks)

\* expected values no value of the returned value's type can be made from
Unconvertible(expected, returned) ==
    \/ /\ returned.t = "int"
       /\ expected \in {NoneV, StrV(S_Empty), StrV(S_True), StrV(S_False),
                        StrV(S_Garbage), StrV(S_ThisWorks), StrV(S_SomethingElse)}
    \/ returned.t = "none"
    \/ returned.t = "list" /\ expected.t \in {"none", "bool", "int"}

\* C8: cast_expected_to_returned_type gives integer 5 for "5" and an integer
\* actual, boolean true for "True" and a boolean actual, boolean false for
\* "False" and a boolean actual, and the expected value itself when no value
\* of the actual's type can be made from it.
C8_CastExamples ==
    last.op = "cast" =>
        /\ (last.expected = StrV(S_5) /\ last.returned.t = "int") => last.value = IntV(5)
        /\ (last.expected = StrV(S_True) /\ last.returned.t = "bool") =>
              last.value = BoolV(TRUE)
        /\ (last.expected = StrV(S_False) /\ last.returned.t = "bool") =>
              last.value = BoolV(FALSE)
        /\ Unconvertible(last.expected, last.returned) => last.value = last.expected

\* "False" has been cast against a boolean
C8_Witness ==
    /\ last.op = "cast"
    /\ last.expected = StrV(S_False)
    /\ last.returned = BoolV(TRUE)
    /\ last.value = BoolV(FALSE)

\* the files loaded so far that define a name
Defining(name) == {i \in 1..nloaded : name \in DOMAIN test_files[i].tests}
Max(S) == CHOOSE i \in S : \A j \in S : j <= i

\* C9: while and after load_test_suite loads the files, test_dict has
\* exactly the names of the files loaded so far, each mapped to its body in
\* the last loaded file that defines it; loading stops with an exception
\* only at a file that cannot be read, never because a name is defined twice.
C9_LastFileWins ==
    /\ \A name \in TestNames :
          /\ name \in DOMAIN test_dict <=> Defining(name) # {}
          /\ name \in DOMAIN test_dict =>
                test_dict[name] = test_files[Max(Defining(name))].tests[name]
    /\ (pc = "raised" /\ last.op = "run_state_tests") =>
          /\ nloaded < Len(test_files)
          /\ ~test_files[nloaded + 1].ok

\* two files define "dup" differently and both are loaded
C9_Witness ==
    /\ nloaded = 2
    /\ Len(test_files) = 2
    /\ Defining("dup") = {1, 2}
    /\ test_files[1].tests["dup"] # test_files[2].tests["dup"]
    /\ test_dict["dup"] = test_files[2].tests["dup"]
    /\ "t1" \in DOMAIN test_dict

OrderingEvaluators ==
    {"assert_greater", "assert_greater_equal", "assert_less", "assert_less_equal"}
\* evaluator e holds of the integers x (first operand) and y (second)
Holds(e, x, y) == CASE e = "assert_greater" -> x > y
                    [] e = "assert_greater_equal" -> x >= y
                    [] e = "assert_less" -> x < y
                    [] e = "assert_less_equal" -> x <= y

\* C10: over integers each ordering evaluator passes exactly when its first
\* operand stands in the named order to its second, and fails otherwise;
\* run_test hands it the coerced expected-return first and the dispatch
\* result second.
C10_ExpectedFirstActualSecond ==
    /\ (last.op = "assert" /\ last.evaluator \in OrderingEvaluators
            /\ last.operands[1].t = "int" /\ last.operands[2].t = "int") =>
          IF Holds(last.evaluator, last.operands[1].n, last.operands[2].n)
          THEN Passed(last.value) ELSE IsFailure(last.value)
    /\ (IsRunTest /\ PassesValidation(last.test)
            /\ AssertionInEnumeration(last.test)
            /\ OwnEvaluator(last.test.assertion.s) \in OrderingEvaluators) =>
          LET actual == ActualOf(last.outcome)
              coerced == cast_expected_to_returned_type(
                             last.test.expected_return, actual, interp)
          IN /\ last.r.operands = <<coerced, actual>>
             /\ (coerced.t = "int" /\ actual.t = "int") =>
                   IF Holds(OwnEvaluator(last.test.assertion.s), coerced.n, actual.n)
                   THEN Passed(last.r.value) ELSE IsFailure(last.r.value)

\* assertGreater with "5" expected and 1 returned passes: 5 > 1
C10_Witness ==
    /\ IsRunTest
    /\ last.test.assertion = StrV(A_assertGreater)
    /\ last.test.expected_return = StrV(S_5)
    /\ last.outcome = IntV(1)
    /\ last.r.operands = <<IntV(5), IntV(1)>>
    /\ Passed(last.r.value)

ComparingEvaluators ==
    OrderingEvaluators \cup {"assert_in", "assert_not_in"}

\* C11: an ordering or membership evaluator called on any two values, also
\* values its predicate cannot compare, returns to its caller, and what it
\* returns is true or a text that begins with "False: ".
C11_EvaluatorsNeverRaise ==
    (last.op = "assert" /\ last.evaluator \in ComparingEvaluators) =>
        /\ ~IsRaise(last.value)
        /\ Passed(last.value) \/ IsFailure(last.value)
        /\ pc # "raised"

\* C14: whenever run_test returns, it returns true or a text that begins
\* with "False: "; a valid test always has an evaluator selected, so the
\* branch that returns the bare boolean false is never taken.
C14_ResultTrueOrFailureText ==
    (IsRunTest /\ ~IsRaise(last.r.value)) =>
        /\ Passed(last.r.value) \/ IsFailure(last.r.value)
        /\ last.r.value # BoolV(FALSE)
        /\ PassesValidation(last.test) => last.r.evaluator # ""

\* a valid assertLessEqual test, the last branch of the dispatch, has failed
C14_Witness ==
    /\ IsRunTest
    /\ PassesValidation(last.test)
    /\ last.test.assertion = StrV(A_assertLessEqual)
    /\ last.r.evaluator = "assert_less_equal"
    /\ IsFailure(last.r.value)

\* the directory at position i of root r has the state's name and directly
\* holds the tests subdirectory
IsStateDir(r, i) ==
    /\ i \in 1..Len(walk.tree[r])
    /\ walk.tree[r][i].name = state_name
    /\ walk.tree[r][i].tests
RootHasStateDir(r) == \E i \in 1..Len(walk.tree[r]) : IsStateDir(r, i)
\* the roots that are searched: the environment's, if one is named, and base
Searched(r) == r = "base" \/ (walk.environment # "" /\ r = walk.environment)
\* root q is searched before root r
Before(q, r) == walk.environment # "" /\ q = walk.environment /\ r = "base" /\ q # r
InStateRun == mode = "state" /\ last.op = "run_state_tests" /\ Len(state_name) > 0
NotFoundReturned ==
    InStateRun /\ pc = "returned" /\ ~\E r \in Roots : Searched(r) /\ RootHasStateDir(r)

\* C12: run_state_tests takes the first directory, in the order the roots
\* are searched (the environment's root before base) and then in the order
\* a root is walked, that is named as the state and holds the tests
\* subdirectory; when no searched root has one it returns an empty report for
\* the state: no file is gathered, no test is run and nothing is raised.
C12_FirstStateDirInRootOrder ==
    /\ (InStateRun /\ pc = "dir") =>
          /\ (mydir = NoDir) <=> ~\E r \in Roots : Searched(r) /\ RootHasStateDir(r)
          /\ mydir # NoDir =>
                /\ Searched(mydir.root)
                /\ IsStateDir(mydir.root, mydir.idx)
                /\ \A i \in 1..(mydir.idx - 1) : ~IsStateDir(mydir.root, i)
                /\ \A q \in Roots : Before(q, mydir.root) => ~RootHasStateDir(q)
    /\ (InStateRun /\ walk # NoWalk /\ pc \in {"returned", "raised"}) =>
          /\ pc = "returned"
          /\ ~\E r \in Roots : Searched(r) /\ RootHasStateDir(r)
          /\ test_files = <<>> /\ test_dict = <<>> /\ results_dict = <<>>
    /\ (InStateRun /\ pc = "raised") => Len(test_files) > 0

\* the state's directory is in both roots and the environment's is taken
C12_Witness ==
    /\ InStateRun /\ pc = "dir"
    /\ walk.environment = "dev"
    /\ RootHasStateDir("dev") /\ RootHasStateDir("base")
    /\ mydir.root = "dev" /\ mydir.idx = 2

\* the top-level component of the i-th name state.show_top lists
TopLevel(i) == SplitDot(top.base[i])[1]
TopLevelNames == {TopLevel(i) : i \in 1..Len(top.base)}
FirstAt(n) == CHOOSE i \in 1..Len(top.base) :
                 TopLevel(i) = n /\ \A j \in 1..(i - 1) : TopLevel(j) # n
RanNames == {ran[i].state : i \in 1..Len(ran)}
InHighstate == mode = "highstate" /\ top.ok

\* C13: run_highstate_tests runs run_state_tests for the part before the
\* first dot of each name state.show_top lists, once for each such part and
\* in the order of their first occurrence, and when it returns, its report
\* has exactly these parts as keys, each with what run_state_tests reported
\* for it.
C13_HighstateRunsEachTopLevelOnce ==
    InHighstate =>
        /\ \A i \in 1..Len(ran) :
              /\ ran[i].state \in TopLevelNames
              /\ \A j \in 1..(i - 1) :
                    /\ ran[j].state # ran[i].state
                    /\ FirstAt(ran[j].state) < FirstAt(ran[i].state)
              /\ \A n \in TopLevelNames :
                    FirstAt(n) < FirstAt(ran[i].state) => n \in {ran[j].state : j \in 1..(i - 1)}
        /\ DOMAIN return_dict = RanNames
        /\ \A i \in 1..Len(ran) : return_dict[ran[i].state] = ran[i].report
        /\ pc = "returned" => RanNames = TopLevelNames

\* a state listed under two names, another one between them: its tests ran
\* once, before the other's, and both are reported
C13_Witness ==
    /\ InHighstate /\ pc = "returned"
    /\ top.base = <<U_apache_vhost, U_nginx, U_apache>>
    /\ Len(ran) = 2 /\ ran[1].state = U_apache /\ ran[2].state = U_nginx
    /\ DOMAIN return_dict = {U_apache, U_nginx}
    /\ "t1" \in DOMAIN return_dict[U_apache]

====
